---- MODULE Spec2Model ----
(***************************************************************************)
(* Model of streamlit_app.py: the Cadre / Voelkr PDF quote extractor.      *)
(*                                                                         *)
(* Python strings are sequences of one-character strings, so that the      *)
(* regular expressions, split(), strip(), float() and the format specs of  *)
(* the source are computed character by character.  Python values of       *)
(* mixed type (Optional[str], Optional[float], Dict[str, Any]) are tagged: *)
(* None, Str(s), Float(x).  A float is an integer count of 1e-5 units      *)
(* (MONEY_RE admits at most five fraction digits).                         *)
(***************************************************************************)
EXTENDS Integers, Sequences, FiniteSets, TLC

VARIABLES
    \* batch loop (if extract_btn)
    system_type, file_data, idx, all_rows, warnings_all, result, bpc,
    \* build_rows_cadre / extract_line_items_hybrid on one document
    cpc, full_text, header, raw_items, out, items, calls, tax_val, rows,
    \* build_rows_voelkr on one document
    vpc, regex_map, vtext, vrows,
    \* _parse_item_from_table_row on one table row
    rpc, cells, item,
    \* extract_tax_amount on one text
    tpc, ttext, tres,
    \* normalize_date_str on one string
    dpc, date_str, dres, dres2,
    \* extract_line_items_by_words on the visual lines of one document;
    \* cur_from / items_from record the lines each value was taken from
    wpc, visual_lines, wi, current, word_desc_parts, word_items, cleaned,
    cur_from, items_from,
    \* extract_line_items_by_tables on the rows of one table; merged records
    \* the rows taken as a description, emitted the rows parsed as an item
    xpc, str_rows, row_r, table_items, merged, emitted

batchVars == <<system_type, file_data, idx, all_rows, warnings_all, result, bpc>>
cadreVars == <<cpc, full_text, header, raw_items, out, items, calls, tax_val, rows>>
voelkrVars == <<vpc, regex_map, vtext, vrows>>
rowVars == <<rpc, cells, item>>
taxVars == <<tpc, ttext, tres>>
dateVars == <<dpc, date_str, dres, dres2>>
wordVars ==
    <<wpc, visual_lines, wi, current, word_desc_parts, word_items, cleaned,
      cur_from, items_from>>
tableVars == <<xpc, str_rows, row_r, table_items, merged, emitted>>
scanVars == <<wordVars, tableVars>>
vars == <<batchVars, cadreVars, voelkrVars, rowVars, taxVars, dateVars, scanVars>>

----------------------------------------------------------------------------
(* Python values *)

None == [t |-> "None"]
Str(s) == [t |-> "str", s |-> s]
Float(x) == [t |-> "float", f |-> x]

\* Python truthiness of an Optional[str]: None and "" are falsy.
Truthy(v) == v # None /\ v # Str(<<>>)

----------------------------------------------------------------------------
(* Characters and strings *)

DigitChars == <<"0", "1", "2", "3", "4", "5", "6", "7", "8", "9">>
UpperChars == {"A", "B", "C", "D", "E", "F", "G", "H", "I", "J", "K", "L", "M",
               "N", "O", "P", "Q", "R", "S", "T", "U", "V", "W", "X", "Y", "Z"}
LowerChars == {"a", "b", "c", "d", "e", "f", "g", "h", "i", "j", "k", "l", "m",
               "n", "o", "p", "q", "r", "s", "t", "u", "v", "w", "x", "y", "z"}

IsDigit(c) == \E i \in 1..10 : DigitChars[i] = c
DigitVal(c) == (CHOOSE i \in 1..10 : DigitChars[i] = c) - 1
SpaceChars == {" ", "\n", "\t"}
DigitSet == {DigitChars[i] : i \in 1..10}
IsSpace(c) == c \in SpaceChars
\* \w of the re module
IsWordChar(c) == IsDigit(c) \/ c \in UpperChars \/ c \in LowerChars \/ c = "_"

Range(f) == {f[i] : i \in DOMAIN f}

Slice(s, a, b) == IF a > b THEN <<>> ELSE SubSeq(s, a, b)

AllDigits(s) == \A i \in 1..Len(s) : IsDigit(s[i])

\* int() of a digit string
RECURSIVE ParseInt(_)
ParseInt(s) ==
    IF s = <<>> THEN 0
    ELSE 10 * ParseInt(Slice(s, 1, Len(s) - 1)) + DigitVal(s[Len(s)])

\* str(n) for n >= 0
RECURSIVE IntToStr(_)
IntToStr(n) ==
    IF n < 10 THEN <<DigitChars[n + 1]>>
    ELSE IntToStr(n \div 10) \o <<DigitChars[(n % 10) + 1]>>

\* the format spec 0<w>d: zero-padded to at least w digits
RECURSIVE ZeroPad(_, _)
ZeroPad(s, w) == IF Len(s) >= w THEN s ELSE ZeroPad(<<"0">> \o s, w)

\* str.strip()
RECURSIVE LStrip(_)
LStrip(s) == IF s # <<>> /\ IsSpace(s[1]) THEN LStrip(Tail(s)) ELSE s
RECURSIVE RStrip(_)
RStrip(s) ==
    IF s # <<>> /\ IsSpace(s[Len(s)]) THEN RStrip(Slice(s, 1, Len(s) - 1)) ELSE s
Strip(s) == RStrip(LStrip(s))

\* s.startswith(p) at offset i (1-based)
HasAt(s, p, i) == i + Len(p) - 1 <= Len(s) /\ Slice(s, i, i + Len(p) - 1) = p

----------------------------------------------------------------------------
(* normalize_date_str *)

TWO_DIGIT_YEAR_LIMIT == 100
CENTURY == 2000

IsDateSep(c) == c \in {"/", "-"}

\* number of leading digits of s from offset i, capped at cap
RECURSIVE DigitRun(_, _, _)
DigitRun(s, i, cap) ==
    IF cap = 0 \/ i > Len(s) \/ ~IsDigit(s[i]) THEN 0
    ELSE 1 + DigitRun(s, i + 1, cap - 1)

\* (\d{1,2})[\/\-](\d{1,2})[\/\-](\d{2,4}) anchored at offset p, group by
\* group: a, b, c are the lengths of the digit runs.  The quantifiers are
\* greedy and a shorter first or second group can never rescue a failed match
\* (the next character would have to be both a digit and a separator), so the
\* groups are the maximal runs.  <<>> when there is no match.
DateMatchYear(s, p, a, b, c) ==
    IF c >= 2
    THEN <<Slice(s, p, p + a - 1), Slice(s, p + a + 1, p + a + b),
           Slice(s, p + a + b + 2, p + a + b + c + 1)>>
    ELSE <<>>

DateMatchDay(s, p, a, b) ==
    IF b >= 1 /\ p + a + b + 1 <= Len(s) /\ IsDateSep(s[p + a + b + 1])
    THEN DateMatchYear(s, p, a, b, DigitRun(s, p + a + b + 2, 4))
    ELSE <<>>

DateMatchMonth(s, p, a) ==
    IF a >= 1 /\ p + a <= Len(s) /\ IsDateSep(s[p + a])
    THEN DateMatchDay(s, p, a, DigitRun(s, p + a + 1, 2))
    ELSE <<>>

DateMatchAt(s, p) == DateMatchMonth(s, p, DigitRun(s, p, 2))

\* the least element of a non-empty set of offsets
Least(S) == CHOOSE p \in S : \A q \in S : p <= q

DateSearchIn(s, hits) == IF hits = {} THEN <<>> ELSE DateMatchAt(s, Least(hits))

\* re.search: the leftmost offset that matches; <<>> when there is none
DateSearch(s) == DateSearchIn(s, {p \in 1..Len(s) : DateMatchAt(s, p) # <<>>})

\* the promotion to the previous century
PromoteYear_1900(yy) == IF yy < TWO_DIGIT_YEAR_LIMIT THEN yy + 1900 ELSE yy

PromoteYear(yy) == IF yy < TWO_DIGIT_YEAR_LIMIT THEN yy + CENTURY ELSE yy

FormatDate(mm, dd, yy) ==
    ZeroPad(IntToStr(mm), 2) \o <<"/">> \o ZeroPad(IntToStr(dd), 2)
        \o <<"/">> \o ZeroPad(IntToStr(yy), 4)

\* the return value for the searched string s and the match m
DateResult(s, m) ==
    IF m = <<>> THEN Str(Strip(s))
    ELSE Str(FormatDate(ParseInt(m[1]), ParseInt(m[2]), PromoteYear(ParseInt(m[3]))))

normalize_date_str(d) == IF ~Truthy(d) THEN None ELSE DateResult(d.s, DateSearch(d.s))

----------------------------------------------------------------------------
(* Token classifiers and the table-row parser *)

\* offset of the first "." of t, 0 when there is none
FirstDot(t) ==
    IF \E i \in 1..Len(t) : t[i] = "."
    THEN CHOOSE i \in 1..Len(t) : t[i] = "." /\ \A j \in 1..(i - 1) : t[j] # "."
    ELSE 0

\* MONEY_RE = ^\$?[\d,]+\.\d{2,5}$
MONEY_RE(t) ==
    LET body == IF t # <<>> /\ t[1] = "$" THEN Tail(t) ELSE t
        dot == FirstDot(body)
        whole == Slice(body, 1, dot - 1)
        frac == Slice(body, dot + 1, Len(body))
    IN  /\ dot >= 2
        /\ \A i \in 1..Len(whole) : IsDigit(whole[i]) \/ whole[i] = ","
        /\ Len(frac) >= 2 /\ Len(frac) <= 5
        /\ AllDigits(frac)

\* QTY_RE = ^\d+(?:\.\d+)?$
QTY_RE(t) ==
    LET dot == FirstDot(t)
    IN  IF dot = 0 THEN t # <<>> /\ AllDigits(t)
        ELSE /\ dot >= 2 /\ dot < Len(t)
             /\ AllDigits(Slice(t, 1, dot - 1))
             /\ AllDigits(Slice(t, dot + 1, Len(t)))

\* ITEM_ID_RE = ^[A-Z0-9][A-Z0-9.\-/_]+$
ITEM_ID_RE(t) ==
    /\ Len(t) >= 2
    /\ t[1] \in UpperChars \/ IsDigit(t[1])
    /\ \A i \in 2..Len(t) :
          t[i] \in UpperChars \/ IsDigit(t[i]) \/ t[i] \in {".", "-", "/", "_"}

\* re.fullmatch(r"[A-Z/]+", t)
UnitCode(t) == t # <<>> /\ \A i \in 1..Len(t) : t[i] \in UpperChars \/ t[i] = "/"

\* str.isdigit()
isdigit(t) == t # <<>> /\ AllDigits(t)

\* str.split(): the maximal runs of non-whitespace characters, in order
RECURSIVE split(_)
split(s) ==
    LET t == LStrip(s)
        n == IF \E i \in 1..Len(t) : IsSpace(t[i])
             THEN (CHOOSE i \in 1..Len(t) :
                      IsSpace(t[i]) /\ \A j \in 1..(i - 1) : ~IsSpace(t[j])) - 1
             ELSE Len(t)
    IN  IF t = <<>> THEN <<>>
        ELSE <<Slice(t, 1, n)>> \o split(Slice(t, n + 1, Len(t)))

\* " ".join(parts)
RECURSIVE join(_)
join(parts) ==
    IF parts = <<>> THEN <<>>
    ELSE IF Len(parts) = 1 THEN parts[1]
    ELSE parts[1] \o <<" ">> \o join(Tail(parts))

RECURSIVE Concat(_)
Concat(ss) == IF ss = <<>> THEN <<>> ELSE ss[1] \o Concat(Tail(ss))

\* the test shared by the description of a table row, the continuation
\* test and the word-flow scan: a token that is not a quantity, not money,
\* not an upper-case unit code and not a number
Wordy(t) == ~(QTY_RE(t) \/ MONEY_RE(t) \/ UnitCode(t) \/ isdigit(t))

row_has_item_signature(cs) ==
    /\ Len(cs) >= 2
    /\ isdigit(Strip(cs[1]))
    /\ ITEM_ID_RE(Strip(cs[2]))

parse_item_from_table_row(cs) ==
    LET rest == Slice(cs, 3, Len(cs))
        tokens == Concat([i \in 1..Len(rest) |-> split(rest[i])])
        qtys == SelectSeq(tokens, QTY_RE)
        money == SelectSeq(tokens, MONEY_RE)
        n == Len(money)
        HasWordy(c) == Strip(c) # <<>> /\ \E i \in 1..Len(split(c)) : Wordy(split(c)[i])
        wordy_cells == SelectSeq(rest, HasWordy)
        desc_parts == [i \in 1..Len(wordy_cells) |-> Strip(wordy_cells[i])]
    IN  [line_no |-> Strip(cs[1]),
         item_id |-> Strip(cs[2]),
         qty |-> IF qtys = <<>> THEN <<>> ELSE qtys[1],
         unit_price |-> IF n >= 2 THEN money[n - 1] ELSE IF n = 1 THEN money[n] ELSE <<>>,
         total |-> IF n >= 1 THEN money[n] ELSE <<>>,
         description |-> Strip(join(desc_parts))]

----------------------------------------------------------------------------
(* float() and extract_tax_amount *)

\* the fraction digits a float keeps: MONEY_RE admits at most five
FLOAT_DIGITS == 5

RemoveChar(s, c) == SelectSeq(s, LAMBDA x : x # c)

RECURSIVE Pow10(_)
Pow10(n) == IF n = 0 THEN 1 ELSE 10 * Pow10(n - 1)

\* one unit of a float is 1e-5
FLOAT_SCALE == Pow10(FLOAT_DIGITS)

\* the digits before and after the first "." of a numeral
WholePart(s) == IF FirstDot(s) = 0 THEN s ELSE Slice(s, 1, FirstDot(s) - 1)
FracPart(s) == IF FirstDot(s) = 0 THEN <<>> ELSE Slice(s, FirstDot(s) + 1, Len(s))

\* the strings float() is applied to here are decimal numerals; on any other
\* string (the empty string included) float() raises ValueError
IsDecimal(s) ==
    /\ AllDigits(WholePart(s)) /\ AllDigits(FracPart(s))
    /\ Len(WholePart(s)) + Len(FracPart(s)) >= 1
    /\ Len(FracPart(s)) <= FLOAT_DIGITS

\* float(s) of a decimal numeral, in units of 1e-5
FloatOf(s) ==
    ParseInt(WholePart(s)) * FLOAT_SCALE
        + ParseInt(FracPart(s)) * Pow10(FLOAT_DIGITS - Len(FracPart(s)))

S_Product == <<"P", "r", "o", "d", "u", "c", "t">>
S_Total == <<"T", "o", "t", "a", "l">>
S_Tax == <<"T", "a", "x">>

\* str.find(sub, from) with 1-based offsets: 0 when sub does not occur
LeastOrZero(hits) == IF hits = {} THEN 0 ELSE Least(hits)
Find(s, sub, from) == LeastOrZero({i \in from..Len(s) : HasAt(s, sub, i)})

RECURSIVE RunLen(_, _, _)
\* length of the run of characters of the set C that starts at offset i
RunLen(s, i, C) ==
    IF i > Len(s) \/ s[i] \notin C THEN 0 ELSE 1 + RunLen(s, i + 1, C)

\* \bTax\s+([\d,]+\.\d{2})\b anchored at offset p: <<group, end offset>>,
\* or <<>>.  No shorter \s+ or [\d,]+ can match where the greedy one fails.
\* the amount: n characters of [\d,] from offset a, ".", two digits, \b
TaxMatchAmount(s, a, n) ==
    IF /\ n >= 1
       /\ a + n + 2 <= Len(s)
       /\ s[a + n] = "." /\ IsDigit(s[a + n + 1]) /\ IsDigit(s[a + n + 2])
       /\ a + n + 2 = Len(s) \/ ~IsWordChar(s[a + n + 3])
    THEN <<Slice(s, a, a + n + 2), a + n + 2>>
    ELSE <<>>

\* \s+ : ws whitespace characters from offset i
TaxMatchSpace(s, i, ws) ==
    IF ws >= 1 THEN TaxMatchAmount(s, i + ws, RunLen(s, i + ws, DigitSet \cup {","}))
    ELSE <<>>

TaxMatchAt(s, p) ==
    IF HasAt(s, S_Tax, p) /\ (p = 1 \/ ~IsWordChar(s[p - 1]))
    THEN TaxMatchSpace(s, p + 3, RunLen(s, p + 3, SpaceChars))
    ELSE <<>>

TaxSearchIn(s, hits) == IF hits = {} THEN <<>> ELSE TaxMatchAt(s, Least(hits))[1]

\* re.search: the group of the leftmost match, <<>> when there is none
TaxSearch(s) == TaxSearchIn(s, {p \in 1..Len(s) : TaxMatchAt(s, p) # <<>>})

\* float(m.group(1).replace(",", "")) with its handler
TaxFloat(num) == IF IsDecimal(num) THEN Float(FloatOf(num)) ELSE None

\* the return value for the match m (<<>>: no match)
TaxResult(m) == IF m = <<>> THEN None ELSE TaxFloat(RemoveChar(m, ","))

\* the block for the offset start of "Product" and the offset end of the
\* "Total" after it (0: not found); full_text.index("Total", start) raises
\* ValueError when "Total" occurs only before "Product" and the handler keeps
\* the whole text
TaxBlockBetween(text, start, end) ==
    IF start > 0 /\ end > 0 THEN Slice(text, start, end - 1) ELSE text

TaxBlockFrom(text, start) ==
    TaxBlockBetween(text, start, IF start = 0 THEN 0 ELSE Find(text, S_Total, start))

TaxBlock(text) == TaxBlockFrom(text, Find(text, S_Product, 1))

\* "if not m: m = re.search(..., full_text)"
OrSearchText(m, text) == IF m = <<>> THEN TaxSearch(text) ELSE m

\* extract_tax_amount as the specification words it: no search outside the block
extract_tax_amount_block_only(text) == TaxResult(TaxSearch(TaxBlock(text)))

extract_tax_amount(text) == TaxResult(OrSearchText(TaxSearch(TaxBlock(text)), text))

----------------------------------------------------------------------------
(* extract_line_items_hybrid, build_rows_cadre *)

CADRE_COLUMNS ==
    <<"ReferralManager", "ReferralEmail", "Brand", "QuoteNumber", "QuoteDate",
      "Company", "FirstName", "LastName", "ContactEmail", "ContactPhone",
      "Address", "County", "City", "State", "ZipCode", "Country", "item_id",
      "item_desc", "UnitPrice", "TotalSales", "QuoteValidDate",
      "CustomerNumber", "manufacturer_Name", "PDF", "DemoQuote">>

\* the key of the de-duplication
ItemKey(it) == <<it.line_no, it.item_id, it.total>>

\* the de-duplication that keeps the last occurrence of a key
RECURSIVE DedupKeepLast(_, _)
DedupKeepLast(its, seen) ==
    IF its = <<>> THEN <<>>
    ELSE LET it == its[Len(its)]
             front == Slice(its, 1, Len(its) - 1)
         IN  IF ItemKey(it) \in seen THEN DedupKeepLast(front, seen)
             ELSE Append(DedupKeepLast(front, seen \cup {ItemKey(it)}), it)

\* the loop "for it in items" of extract_line_items_hybrid, seen being the
\* keys already met
RECURSIVE Dedup(_, _)
Dedup(its, seen) ==
    IF its = <<>> THEN <<>>
    ELSE IF ItemKey(its[1]) \in seen THEN Dedup(Tail(its), seen)
    ELSE <<its[1]>> \o Dedup(Tail(its), seen \cup {ItemKey(its[1])})

\* the fallback test that lets the word-flow strategy run every time
NeedsFallback_Always(its) == TRUE

\* "if not items": the table strategy found nothing
NeedsFallback(its) == its = <<>>

\* "items = by_tables(); if not items: items = by_words()"
HybridChoice(tbl, wrd) == IF NeedsFallback(tbl) THEN wrd ELSE tbl

extract_line_items_hybrid(tbl, wrd) == Dedup(HybridChoice(tbl, wrd), {})

TAX_EPSILON == 500

Abs(x) == IF x < 0 THEN 0 - x ELSE x

RECURSIVE GroupThousands(_)
\* the "," option of the format spec on a digit string
GroupThousands(ds) ==
    IF Len(ds) <= 3 THEN ds
    ELSE GroupThousands(Slice(ds, 1, Len(ds) - 3)) \o <<",">> \o Slice(ds, Len(ds) - 2, Len(ds))

\* the two decimals of a count of cents
FormatCents(cents) ==
    GroupThousands(IntToStr(cents \div 100)) \o <<".">> \o ZeroPad(IntToStr(cents % 100), 2)

\* f"{v:,.2f}" of a float v >= 0 given in units of 1e-5
FormatMoney(v) == FormatCents((v + 500) \div 1000)

S_TAX == <<"T", "A", "X">>

TaxItem(tax) ==
    [line_no |-> S_TAX, item_id |-> S_Tax, qty |-> <<"1">>,
     unit_price |-> FormatMoney(tax.f), total |-> FormatMoney(tax.f),
     description |-> <<>>]

\* the tax rule without its zero test
AppendTax_Always(its, tax) == IF tax # None THEN Append(its, TaxItem(tax)) ELSE its

\* "Tax rule: 0 => ignore; >0 => include Tax row with blank desc"
AppendTax(its, tax) ==
    IF tax # None /\ Abs(tax.f) >= TAX_EPSILON THEN Append(its, TaxItem(tax)) ELSE its

\* _safe_float
safe_float(s) == IF s = <<>> THEN None ELSE TaxFloat(RemoveChar(RemoveChar(s, "$"), ","))

\* header.get(k)
HGet(h, k) == IF k \in DOMAIN h THEN Str(h[k]) ELSE None

S_Brand == <<"C", "a", "d", "r", "e", " ", "W", "i", "r", "e", " ", "G", "r", "o", "u", "p">>

\* the entries of a row that come from the header and the file name
CadreHeaderPart(h, filename) ==
    [ReferralManager |-> HGet(h, "ReferralManager"),
     ReferralEmail |-> None,
     Brand |-> Str(S_Brand),
     QuoteNumber |-> HGet(h, "QuoteNumber"),
     QuoteDate |-> normalize_date_str(HGet(h, "QuoteDate")),
     Company |-> HGet(h, "Company"),
     FirstName |-> HGet(h, "FirstName"),
     LastName |-> HGet(h, "LastName"),
     ContactEmail |-> None,
     ContactPhone |-> None,
     Address |-> HGet(h, "Address"),
     County |-> None,
     City |-> HGet(h, "City"),
     State |-> HGet(h, "State"),
     ZipCode |-> HGet(h, "ZipCode"),
     Country |-> HGet(h, "Country"),
     QuoteValidDate |-> normalize_date_str(HGet(h, "QuoteValidDate")),
     CustomerNumber |-> HGet(h, "CustomerNumber"),
     manufacturer_Name |-> None,
     PDF |-> Str(filename),
     DemoQuote |-> None]

\* the item entries with the description left out of the row
CadreItemPart_NoDesc(it) ==
    [item_id |-> Str(it.item_id),
     UnitPrice |-> safe_float(it.unit_price),
     TotalSales |-> safe_float(it.total)]

\* the entries of a row that come from the line item
CadreItemPart(it) ==
    [item_id |-> Str(it.item_id),
     item_desc |-> Str(it.description),
     UnitPrice |-> safe_float(it.unit_price),
     TotalSales |-> safe_float(it.total)]

\* the dict literal appended to rows
CadreRow(h, it, filename) == CadreHeaderPart(h, filename) @@ CadreItemPart(it)

\* the row loop of build_rows_cadre pairing every item with the first item
CadreRows_FirstItem(h, its, filename) ==
    [i \in 1..Len(its) |-> CadreRow(h, its[1], filename)]

\* "for it in items: rows.append({...})"
CadreRows(h, its, filename) == [i \in 1..Len(its) |-> CadreRow(h, its[i], filename)]

\* build_rows_cadre on a readable document d (its text, the header found in
\* it, and what the two line-item strategies find in it)
build_rows_cadre(d, filename) ==
    CadreRows(d.header,
              AppendTax(extract_line_items_hybrid(d.table_items, d.word_items),
                        extract_tax_amount(d.text)),
              filename)

----------------------------------------------------------------------------
(* build_rows_voelkr *)

VOELKR_FIELDS ==
    <<"PDF", "DocumentNumber", "DocumentDate", "CustomerName", "CustomerNumber",
      "ShipToAddress", "BillToAddress", "Subtotal", "Tax", "Total">>

\* A pattern of VOELKR_REGEX_MAP is known by what re.search does with it:
\*   "group"    compiles and has a capturing group (m.lastindex is 1)
\*   "nogroup"  compiles and has no group (m.lastindex is None)
\*   "empty"    the empty string
\*   "invalid"  re.search raises re.error
\*   "overflow" re.search raises OverflowError (a repetition count too large)
PatternKinds == {"group", "nogroup", "empty", "invalid", "overflow"}

\* VOELKR_REGEX_MAP as the source sets it: a pattern with a group per field
VOELKR_REGEX_MAP == [f \in Range(VOELKR_FIELDS) \ {"PDF"} |-> "group"]

\* VOELKR_REGEX_MAP.get(field, "")
PatternOf(map, field) == IF field \in DOMAIN map THEN map[field] ELSE "empty"

\* the fields with "date" in field.lower()
DateFields == {"DocumentDate"}

RECURSIVE CollapseSpaces(_)
\* re.sub(r"\s+", " ", s)
CollapseSpaces(s) ==
    IF s = <<>> THEN <<>>
    ELSE IF IsSpace(s[1])
         THEN <<" ">> \o CollapseSpaces(Slice(s, 1 + RunLen(s, 1, SpaceChars), Len(s)))
         ELSE <<s[1]>> \o CollapseSpaces(Tail(s))

\* value = m.group(1) if m.lastindex else m.group(0), whitespace collapsed
\* and stripped; m is <<group 0, group 1>>
CapturedValue(pattern, m) ==
    Strip(CollapseSpaces(IF pattern = "group" THEN m[2] ELSE m[1]))

\* value = normalize_date_str(value) or value, for the date fields
NormalizedValue(field, value) ==
    IF field \in DateFields /\ Truthy(normalize_date_str(Str(value)))
    THEN normalize_date_str(Str(value))
    ELSE Str(value)

\* One pass of the body of "for field in VOELKR_FIELDS".  text[field] is what
\* a compiled pattern of the field finds in the document: <<>> for no match,
\* else <<group 0, group 1>>.
\*   "skip"   the row is left alone (continue, no match)
\*   "set"    row[field] = v
\*   "caught" re.error was raised and swallowed by "except re.error: pass"
\*   "raise"  another exception was raised and leaves the function
FieldOutcome(field, text, map) ==
    IF field = "PDF" \/ PatternOf(map, field) = "empty" THEN [st |-> "skip"]
    ELSE IF PatternOf(map, field) = "invalid" THEN [st |-> "caught"]
    ELSE IF PatternOf(map, field) = "overflow" THEN [st |-> "raise"]
    ELSE IF text[field] = <<>> THEN [st |-> "skip"]
    ELSE [st |-> "set",
          v |-> NormalizedValue(field, CapturedValue(PatternOf(map, field), text[field]))]

\* the row after one pass that did not raise
RowAfter(row, field, o) == IF o.st = "set" THEN [row EXCEPT ![field] = o.v] ELSE row

\* the field loop with the try statement around the whole loop: the first
\* bad pattern ends it
RECURSIVE VoelkrLoop_TryAroundLoop(_, _, _, _)
VoelkrLoop_TryAroundLoop(fs, row, text, map) ==
    IF fs = <<>> THEN [raised |-> FALSE, row |-> row]
    ELSE IF FieldOutcome(fs[1], text, map).st = "raise" THEN [raised |-> TRUE, row |-> row]
    ELSE IF FieldOutcome(fs[1], text, map).st = "caught" THEN [raised |-> FALSE, row |-> row]
    ELSE VoelkrLoop_TryAroundLoop(Tail(fs), RowAfter(row, fs[1], FieldOutcome(fs[1], text, map)),
                                  text, map)

\* "for field in VOELKR_FIELDS: ..." over the remaining fields fs
RECURSIVE VoelkrLoop(_, _, _, _)
VoelkrLoop(fs, row, text, map) ==
    IF fs = <<>> THEN [raised |-> FALSE, row |-> row]
    ELSE IF FieldOutcome(fs[1], text, map).st = "raise" THEN [raised |-> TRUE, row |-> row]
    ELSE VoelkrLoop(Tail(fs), RowAfter(row, fs[1], FieldOutcome(fs[1], text, map)), text, map)

\* row = {c: "" for c in VOELKR_FIELDS}; row["PDF"] = filename
VoelkrBlankRow(filename) ==
    [c \in Range(VOELKR_FIELDS) |-> IF c = "PDF" THEN Str(filename) ELSE Str(<<>>)]

\* the return value [row], or the exception
VoelkrReturn(r) == [raised |-> r.raised, rows |-> IF r.raised THEN <<>> ELSE <<r.row>>]

\* build_rows_voelkr on the text of a readable document: the list [row], or
\* the exception that leaves it
build_rows_voelkr(text, map, filename) ==
    VoelkrReturn(VoelkrLoop(VOELKR_FIELDS, VoelkrBlankRow(filename), text, map))

----------------------------------------------------------------------------
(* parse_pdf, columns_for_system *)

SYSTEM_TYPES == <<"Cadre", "Voelkr">>

PLACEHOLDER_FIELDS == 3

\* extract_full_text has no handler around pdfplumber.open: the text of a
\* readable document, the exception of an unreadable one
extract_full_text(d) ==
    IF d.readable THEN [raised |-> FALSE, text |-> d.text]
    ELSE [raised |-> TRUE, text |-> <<>>]

\* the warnings of the Voelkr branch
VoelkrWarnings ==
    IF Len(VOELKR_FIELDS) <= PLACEHOLDER_FIELDS
    THEN <<"Voelkr headers look like placeholders.">>
    ELSE <<>>

VoelkrParsed(r) == [raised |-> r.raised, rows |-> r.rows, warnings |-> VoelkrWarnings]

\* parse_pdf: (rows, warnings), or the exception that leaves it
parse_pdf(st, d, filename) ==
    IF extract_full_text(d).raised
    THEN [raised |-> TRUE, rows |-> <<>>, warnings |-> <<>>]
    ELSE IF st = "Cadre"
    THEN [raised |-> FALSE, rows |-> build_rows_cadre(d, filename), warnings |-> <<>>]
    ELSE IF st = "Voelkr"
    THEN VoelkrParsed(build_rows_voelkr(d.vmatch, VOELKR_REGEX_MAP, filename))
    ELSE [raised |-> TRUE, rows |-> <<>>, warnings |-> <<>>]

columns_for_system(st) ==
    IF st = "Cadre" THEN CADRE_COLUMNS
    ELSE IF st = "Voelkr" THEN VOELKR_FIELDS
    ELSE <<>>

\* df = pd.DataFrame(all_rows); df = df[cols]: a record per row over cols
DataFrame(rs, cols) ==
    [i \in 1..Len(rs) |->
        [c \in Range(cols) |-> IF c \in DOMAIN rs[i] THEN rs[i][c] ELSE None]]

----------------------------------------------------------------------------
(* ITEM_START_RE, SUMMARY_STOP_LINE_RE and the word-flow scan *)

UpperSeq == <<"A", "B", "C", "D", "E", "F", "G", "H", "I", "J", "K", "L", "M",
              "N", "O", "P", "Q", "R", "S", "T", "U", "V", "W", "X", "Y", "Z">>
LowerSeq == <<"a", "b", "c", "d", "e", "f", "g", "h", "i", "j", "k", "l", "m",
              "n", "o", "p", "q", "r", "s", "t", "u", "v", "w", "x", "y", "z">>

\* re.IGNORECASE: both sides are compared in lower case
LowerChar(c) ==
    IF c \in UpperChars THEN LowerSeq[CHOOSE k \in 1..26 : UpperSeq[k] = c] ELSE c
Lower(s) == [k \in 1..Len(s) |-> LowerChar(s[k])]

\* \b between offsets k and k + 1 of s
IsWordAt(s, k) == k >= 1 /\ k <= Len(s) /\ IsWordChar(s[k])
Boundary(s, k) == IsWordAt(s, k) # IsWordAt(s, k + 1)

ItemCodeChars == UpperChars \cup DigitSet \cup {".", "-", "/", "_"}

\* ([A-Z0-9][A-Z0-9.\-/_]+)\b from offset p: some length of the run ends at a
\* word boundary
ItemStartCode(s, p) ==
    /\ p <= Len(s) /\ s[p] \in UpperChars \cup DigitSet
    /\ \E n \in 1..RunLen(s, p + 1, ItemCodeChars) : Boundary(s, p + n)

\* \s+ after the a digits of the line number, then the item code
ItemStartSpace(s, a, ws) == ws >= 1 /\ ItemStartCode(s, a + ws + 1)

ItemStartDigits(s, a) == a >= 1 /\ ItemStartSpace(s, a, RunLen(s, a + 1, SpaceChars))

\* ITEM_START_RE = ^(\d{1,4})\s+([A-Z0-9][A-Z0-9.\-/_]+)\b (re.ASCII): fewer
\* digits or fewer spaces than the maximal run leave a digit or a space where
\* the next part cannot start
ITEM_START_RE(s) == ItemStartDigits(s, DigitRun(s, 1, 4))

W_subtotal == <<"s", "u", "b", "t", "o", "t", "a", "l">>
W_total == <<"t", "o", "t", "a", "l">>
W_grand == <<"g", "r", "a", "n", "d">>
W_freight == <<"f", "r", "e", "i", "g", "h", "t">>
W_tax == <<"t", "a", "x">>
W_product == <<"p", "r", "o", "d", "u", "c", "t">>

\* the word w at the start of l, then \b
StartsWord(l, w) == HasAt(l, w, 1) /\ Boundary(l, Len(w))

\* Grand\s+Total
GrandTotal(l, ws) == HasAt(l, W_grand, 1) /\ ws >= 1 /\ HasAt(l, W_total, Len(W_grand) + ws + 1)

StopLower(l) ==
    \/ HasAt(l, W_subtotal, 1)
    \/ StartsWord(l, W_total)
    \/ GrandTotal(l, RunLen(l, Len(W_grand) + 1, SpaceChars))
    \/ HasAt(l, W_freight, 1)
    \/ StartsWord(l, W_tax)
    \/ StartsWord(l, W_product)

\* SUMMARY_STOP_LINE_RE = ^(Subtotal|Total\b|Grand\s+Total|Freight|Tax\b|Product\b)
\* with re.IGNORECASE
SUMMARY_STOP_LINE_RE(s) == StopLower(Lower(s))

\* the wordy test of the continuation test and of the word-flow scan
AnyWordy(toks) == \E k \in 1..Len(toks) : Wordy(toks[k])

\* the dictionary _parse_item_row_tokens returns for the quantity-shaped
\* and money-shaped tokens after the first two
ItemOfTokens(tokens, qtys, money) ==
    [line_no |-> Str(tokens[1]),
     item_id |-> Str(tokens[2]),
     qty |-> IF qtys = <<>> THEN None ELSE Str(qtys[1]),
     unit_price |-> IF Len(money) >= 2 THEN Str(money[Len(money) - 1]) ELSE None,
     total |-> IF Len(money) >= 1 THEN Str(money[Len(money)]) ELSE None]

TokensAfter(tokens) == Slice(tokens, 3, Len(tokens))

parse_item_row_tokens(tokens) ==
    ItemOfTokens(tokens, SelectSeq(TokensAfter(tokens), QTY_RE),
                 SelectSeq(TokensAfter(tokens), MONEY_RE))

\* current with its description set
WithDescription(cur, parts) ==
    [line_no |-> cur.line_no, item_id |-> cur.item_id, qty |-> cur.qty,
     unit_price |-> cur.unit_price, total |-> cur.total,
     description |-> Str(Strip(join(parts)))]

\* flush(): the list items after it
flush(its, cur, parts) ==
    IF cur # None THEN Append(its, WithDescription(cur, parts)) ELSE its

\* the record of origins that goes with flush()
flush_from(froms, from) == IF from # None THEN Append(froms, from) ELSE froms

\* the test at the head of the scan loop
StopsScan_Never(line) == FALSE

StopsScan(line) == SUMMARY_STOP_LINE_RE(line)

\* the number of following lines the backfill looks at, and the cap on
\* description lines
LOOKAHEAD == 4
DESC_CAP == 3

\* "if need_total and current.get('total') is None" for the money tokens m of
\* line k
BackfillTotal(st, k, m) ==
    IF st.need_total /\ st.cur.total = None
    THEN [st EXCEPT !.cur.total = Str(m[Len(m)]), !.need_total = FALSE, !.from.total = k]
    ELSE st

\* "if need_unit and len(nxt_money) >= 2 and current.get('unit_price') is None"
BackfillUnit(st, k, m) ==
    IF st.need_unit /\ Len(m) >= 2 /\ st.cur.unit_price = None
    THEN [st EXCEPT !.cur.unit_price = Str(m[Len(m) - 1]), !.need_unit = FALSE,
                    !.from.unit_price = k]
    ELSE st

\* "if nxt_money:"
BackfillFrom(st, k, nxt_money) ==
    IF nxt_money = <<>> THEN st ELSE BackfillUnit(BackfillTotal(st, k, nxt_money), k, nxt_money)

\* the lookahead that does not stop at the next item-start or stop line
RECURSIVE Lookahead_PastBoundary(_, _, _, _)
Lookahead_PastBoundary(lines, i, j, st) ==
    IF j > LOOKAHEAD \/ i + j >= Len(lines) THEN st
    ELSE Lookahead_PastBoundary(lines, i, j + 1,
             BackfillFrom(st, i + j + 1,
                          SelectSeq(split(Strip(lines[i + j + 1])), MONEY_RE)))

\* "for j in (1, 2, 3, 4)" from pass j on, for the item opened at the line of
\* 0-based index i; line i + j is lines[i + j + 1]
RECURSIVE Lookahead(_, _, _, _)
Lookahead(lines, i, j, st) ==
    IF j > LOOKAHEAD \/ i + j >= Len(lines) THEN st
    ELSE IF \/ ITEM_START_RE(Strip(lines[i + j + 1]))
            \/ SUMMARY_STOP_LINE_RE(Strip(lines[i + j + 1]))
    THEN st
    ELSE Lookahead(lines, i, j + 1,
             BackfillFrom(st, i + j + 1,
                          SelectSeq(split(Strip(lines[i + j + 1])), MONEY_RE)))

\* the item just opened at 0-based index i, with the flags need_unit and
\* need_total and the lines its values come from (0: the opening line or none)
Opened(i, cur) ==
    [cur |-> cur,
     need_unit |-> cur.unit_price = None,
     need_total |-> cur.total = None,
     from |-> [open |-> i + 1, total |-> 0, unit_price |-> 0, desc |-> <<>>]]

\* "if need_unit or need_total:" and the loop under it
BackfillIfNeeded(lines, i, st) ==
    IF st.need_unit \/ st.need_total THEN Lookahead(lines, i, 1, st) ELSE st

\* the item opened by the tokens of line i, after the backfill
OpenItem(lines, i, tokens) == BackfillIfNeeded(lines, i, Opened(i, parse_item_row_tokens(tokens)))

\* str(it.get(k) or "")
StrOrEmpty(v) == IF Truthy(v) THEN v.s ELSE <<>>

CleanItem(it) ==
    [line_no |-> StrOrEmpty(it.line_no), item_id |-> StrOrEmpty(it.item_id),
     qty |-> StrOrEmpty(it.qty), unit_price |-> StrOrEmpty(it.unit_price),
     total |-> StrOrEmpty(it.total), description |-> StrOrEmpty(it.description)]

HasItemId(it) == Truthy(it.item_id)

\* the list cleaned
Cleaned(its) ==
    [k \in 1..Len(SelectSeq(its, HasItemId)) |-> CleanItem(SelectSeq(its, HasItemId)[k])]

\* _line_is_desc_continuation
line_is_desc_continuation(line) ==
    /\ line # <<>>
    /\ ~ITEM_START_RE(line)
    /\ ~SUMMARY_STOP_LINE_RE(line)
    /\ AnyWordy(split(line))

\* " ".join([c for c in nxt_cells if c]).strip()
NxtLine(nxt_cells) == Strip(join(SelectSeq(nxt_cells, LAMBDA c : c # <<>>)))

\* whether the row after row r (0-based) is merged into the item it of row r
MergesNext(rs, r, it) ==
    /\ it.description = <<>>
    /\ r + 1 < Len(rs)
    /\ line_is_desc_continuation(NxtLine(rs[r + 2]))

\* the item appended for row r
ItemOfRow(rs, r, it) ==
    IF MergesNext(rs, r, it) THEN [it EXCEPT !.description = NxtLine(rs[r + 2])] ELSE it

\* "cells and SUMMARY_STOP_LINE_RE.match(cells[0].strip())"
IsSummaryRow(cs) == cs # <<>> /\ SUMMARY_STOP_LINE_RE(Strip(cs[1]))

----------------------------------------------------------------------------
(* Variables a specification does not use stay at these values. *)

BatchIdle ==
    /\ system_type = "" /\ file_data = <<>> /\ idx = 0
    /\ all_rows = <<>> /\ warnings_all = <<>> /\ result = None /\ bpc = "off"
CadreIdle ==
    /\ cpc = "off" /\ full_text = <<>> /\ header = <<>> /\ raw_items = <<>>
    /\ out = <<>> /\ items = <<>> /\ calls = <<>> /\ tax_val = None /\ rows = <<>>
VoelkrIdle == vpc = "off" /\ regex_map = <<>> /\ vtext = <<>> /\ vrows = <<>>
RowIdle == rpc = "off" /\ cells = <<>> /\ item = <<>>
TaxIdle == tpc = "off" /\ ttext = <<>> /\ tres = None
DateIdle == dpc = "off" /\ date_str = None /\ dres = None /\ dres2 = None
WordIdle ==
    /\ wpc = "off" /\ visual_lines = <<>> /\ wi = 0 /\ current = None
    /\ word_desc_parts = <<>> /\ word_items = <<>> /\ cleaned = <<>>
    /\ cur_from = None /\ items_from = <<>>
TableIdle ==
    /\ xpc = "off" /\ str_rows = <<>> /\ row_r = 0 /\ table_items = <<>>
    /\ merged = {} /\ emitted = {}
ScanIdle == WordIdle /\ TableIdle

----------------------------------------------------------------------------
(* normalize_date_str applied to a string, then to its own result *)

MaxYearDigits == 4

RECURSIVE StrsOver(_, _)
\* the strings of exactly n characters over the alphabet A
StrsOver(A, n) ==
    IF n = 0 THEN {<<>>}
    ELSE {<<c>> \o s : c \in A, s \in StrsOver(A, n - 1)}

MonthTokens == {<<"9">>, <<"0", "9">>, <<"1", "2">>}
DayTokens == {<<"5">>, <<"0", "5">>}
YearTokens == UNION {StrsOver({"0", "2", "4"}, n) : n \in 2..MaxYearDigits}
DateAffixes == {<<>>, <<"1">>, <<"x", " ">>}
\* a suffix is an affix read backwards (" x" after the date, "x " before it)
DateSuffix(a) == [i \in 1..Len(a) |-> a[Len(a) + 1 - i]]

DateInputs ==
    {Str(pre \o mo \o <<s1>> \o da \o <<s2>> \o yr \o DateSuffix(suf)) :
        pre \in DateAffixes, mo \in MonthTokens, s1 \in {"/", "-"},
        da \in DayTokens, s2 \in {"/", "-"}, yr \in YearTokens,
        suf \in DateAffixes}
    \cup {None, Str(<<>>), Str(<<" ", "n", "/", "a", " ">>)}

InitDate ==
    /\ date_str \in DateInputs
    /\ dres = None /\ dres2 = None /\ dpc = "input"
    /\ ScanIdle /\ BatchIdle /\ CadreIdle /\ VoelkrIdle /\ RowIdle /\ TaxIdle

NormalizeDate ==
    /\ dpc = "input"
    /\ dres' = normalize_date_str(date_str)
    /\ dpc' = "once"
    /\ UNCHANGED <<date_str, dres2>>
    /\ UNCHANGED <<scanVars, batchVars, cadreVars, voelkrVars, rowVars, taxVars>>

NormalizeDateAgain ==
    /\ dpc = "once"
    /\ dres2' = normalize_date_str(dres)
    /\ dpc' = "twice"
    /\ UNCHANGED <<date_str, dres>>
    /\ UNCHANGED <<scanVars, batchVars, cadreVars, voelkrVars, rowVars, taxVars>>

NextDate == NormalizeDate \/ NormalizeDateAgain

SpecDate == InitDate /\ [][NextDate]_vars


\* a date token D{1,2}[/-]D{1,2}[/-]D{2,4} with groups of a, b, c digits at offset p
DateTokenAt(s, p, a, b, c) ==
    /\ p + a + b + c + 1 <= Len(s)
    /\ AllDigits(Slice(s, p, p + a - 1))
    /\ IsDateSep(s[p + a])
    /\ AllDigits(Slice(s, p + a + 1, p + a + b))
    /\ IsDateSep(s[p + a + b + 1])
    /\ AllDigits(Slice(s, p + a + b + 2, p + a + b + c + 1))

ContainsDateToken(s) ==
    \E p \in 1..Len(s), a \in 1..2, b \in 1..2, c \in 2..4 : DateTokenAt(s, p, a, b, c)

IsMMDDYYYY(s) ==
    /\ Len(s) = 10
    /\ \A i \in {1, 2, 4, 5, 7, 8, 9, 10} : IsDigit(s[i])
    /\ s[3] = "/" /\ s[6] = "/"

\* the result r is the token of s at (p, a, b, c), zero-padded, its year promoted
DateOfToken(r, s, p, a, b, c) ==
    LET yy == ParseInt(Slice(s, p + a + b + 2, p + a + b + c + 1))
    IN  /\ ParseInt(Slice(r, 1, 2)) = ParseInt(Slice(s, p, p + a - 1))
        /\ ParseInt(Slice(r, 4, 5)) = ParseInt(Slice(s, p + a + 1, p + a + b))
        /\ ParseInt(Slice(r, 7, 10)) = IF yy < 100 THEN yy + 2000 ELSE yy

S_9_5_24 == <<"9", "/", "5", "/", "2", "4">>
S_09_05_2024 == <<"0", "9", "/", "0", "5", "/", "2", "0", "2", "4">>

\* C10: on a string containing a date token normalize_date_str returns
\* MM/DD/YYYY, month and day zero-padded, a year below 100 promoted by 2000
\* ("9/5/24" -> "09/05/2024"), and applying it to its own result changes nothing.
C10_DateNormalizedIdempotent ==
    /\ (dpc \in {"once", "twice"} /\ date_str.t = "str" /\ ContainsDateToken(date_str.s)) =>
          /\ dres.t = "str"
          /\ IsMMDDYYYY(dres.s)
          /\ \E p \in 1..Len(date_str.s), a \in 1..2, b \in 1..2, c \in 2..4 :
                /\ DateTokenAt(date_str.s, p, a, b, c)
                /\ DateOfToken(dres.s, date_str.s, p, a, b, c)
          /\ (dpc = "twice" => dres2 = dres)
    /\ (dpc \in {"once", "twice"} /\ date_str = Str(S_9_5_24)) => dres = Str(S_09_05_2024)
    /\ (dpc \in {"once", "twice"} /\ date_str = Str(S_09_05_2024)) => dres = Str(S_09_05_2024)

C10_Witness ==
    /\ dpc = "twice"
    /\ date_str = Str(<<"x", " ">> \o S_9_5_24 \o <<" ", "x">>)
    /\ dres = Str(S_09_05_2024)
    /\ dres2 = Str(S_09_05_2024)

----------------------------------------------------------------------------
(* _parse_item_from_table_row applied to one cleaned table row *)

MaxRestCells == 4

S_1 == <<"1">>
S_2 == <<"2">>
S_SKU_100 == <<"S", "K", "U", "-", "1", "0", "0">>
S_10_00 == <<"1", "0", ".", "0", "0">>
S_20_00 == <<"2", "0", ".", "0", "0">>
S_Widget == <<"W", "i", "d", "g", "e", "t">>
S_EA == <<"E", "A">>
S_Qty == <<"Q", "t", "y">>

FirstCells == {S_1, S_Qty}
SecondCells == {S_SKU_100, S_Widget}
RestCells == {S_2, <<"$">> \o S_10_00, <<"$">> \o S_20_00, S_Widget, S_EA, <<>>}

RECURSIVE SeqsUpTo(_, _)
\* the sequences of at most n elements of S
SeqsUpTo(S, n) ==
    IF n = 0 THEN {<<>>}
    ELSE SeqsUpTo(S, n - 1) \cup {Append(q, x) : q \in {r \in SeqsUpTo(S, n - 1) : Len(r) = n - 1}, x \in S}

TableRows ==
    {<<c0>> : c0 \in FirstCells}
    \cup {<<c0, c1>> \o rest : c0 \in FirstCells, c1 \in SecondCells,
                               rest \in SeqsUpTo(RestCells, MaxRestCells)}

InitRow ==
    /\ cells \in TableRows
    /\ item = <<>> /\ rpc = "input"
    /\ ScanIdle /\ BatchIdle /\ CadreIdle /\ VoelkrIdle /\ TaxIdle /\ DateIdle

\* an item row is parsed
ParseRow ==
    /\ rpc = "input"
    /\ row_has_item_signature(cells)
    /\ item' = parse_item_from_table_row(cells)
    /\ rpc' = "parsed"
    /\ UNCHANGED cells
    /\ UNCHANGED <<scanVars, batchVars, cadreVars, voelkrVars, taxVars, dateVars>>

\* any other row yields no item
SkipRow ==
    /\ rpc = "input"
    /\ ~row_has_item_signature(cells)
    /\ rpc' = "skipped"
    /\ UNCHANGED <<cells, item>>
    /\ UNCHANGED <<scanVars, batchVars, cadreVars, voelkrVars, taxVars, dateVars>>

NextRow == ParseRow \/ SkipRow

SpecRow == InitRow /\ [][NextRow]_vars

Row_SKU == <<S_1, S_SKU_100, S_2, <<"$">> \o S_10_00, <<"$">> \o S_20_00, S_Widget>>

\* C6: a parsed table row takes item_id from the second cell, qty from the
\* first quantity-shaped token, unit_price and total from the last two
\* money-shaped tokens as plain decimal strings without the currency symbol,
\* and the row ["1", "SKU-100", "2", "$10.00", "$20.00", "Widget"] yields
\* item_id "SKU-100", qty "2", unit_price "10.00", total "20.00",
\* description "Widget".
C6_RowParsedNormalized ==
    rpc = "parsed" =>
        /\ item.item_id = Strip(cells[2])
        /\ \A i \in 1..Len(item.unit_price) : item.unit_price[i] # "$"
        /\ \A i \in 1..Len(item.total) : item.total[i] # "$"
        /\ cells = Row_SKU =>
              item = [line_no |-> S_1, item_id |-> S_SKU_100, qty |-> S_2,
                      unit_price |-> S_10_00, total |-> S_20_00,
                      description |-> S_Widget]

----------------------------------------------------------------------------
(* extract_tax_amount applied to one document text *)

MaxTaxUnits == 4

S_4_98 == <<"4", ".", "9", "8">>
S_1_50 == <<"1", ".", "5", "0">>
S_0_00 == <<"0", ".", "0", "0">>
S_Subtotal == <<"S", "u", "b", "t", "o", "t", "a", "l">>

\* the pieces a text is made of, joined by single spaces
TaxUnits ==
    {S_Product, S_Total, S_Subtotal, S_Tax, S_4_98,
     S_Tax \o <<" ">> \o S_4_98, S_Tax \o <<" ">> \o S_1_50,
     S_Tax \o <<" ">> \o S_0_00,
     \* an amount run into the label that closes the block
     S_Tax \o <<" ">> \o S_4_98 \o S_Total}

TaxTexts == {join(us) : us \in SeqsUpTo(TaxUnits, MaxTaxUnits)}

InitTax ==
    /\ ttext \in TaxTexts
    /\ tres = None /\ tpc = "input"
    /\ ScanIdle /\ BatchIdle /\ CadreIdle /\ VoelkrIdle /\ RowIdle /\ DateIdle

ExtractTax ==
    /\ tpc = "input"
    /\ tres' = extract_tax_amount(ttext)
    /\ tpc' = "done"
    /\ UNCHANGED ttext
    /\ UNCHANGED <<scanVars, batchVars, cadreVars, voelkrVars, rowVars, dateVars>>

NextTax == ExtractTax

SpecTax == InitTax /\ [][NextTax]_vars

\* offsets of the "Product" .. "Total" block of s: <<start, end>>, <<>> when
\* s has no "Product" followed by "Total"
ProductTotalBlock(s) ==
    IF \E i \in 1..Len(s), j \in 1..Len(s) :
          i <= j /\ HasAt(s, S_Product, i) /\ HasAt(s, S_Total, j)
    THEN LET i == CHOOSE i \in 1..Len(s) :
                     HasAt(s, S_Product, i) /\ \A k \in 1..(i - 1) : ~HasAt(s, S_Product, k)
             j == CHOOSE j \in i..Len(s) :
                     HasAt(s, S_Total, j) /\ \A k \in i..(j - 1) : ~HasAt(s, S_Total, k)
         IN  <<i, j>>
    ELSE <<>>

\* the text of the block: from the first "Product" up to the next "Total"
BlockText(s) ==
    IF ProductTotalBlock(s) = <<>> THEN <<>>
    ELSE Slice(s, ProductTotalBlock(s)[1], ProductTotalBlock(s)[2] - 1)

\* "Tax <amount>" occurs at offset p of s
TaxAt(s, p) == TaxMatchAt(s, p) # <<>>
TaxValueAt(s, p) == Float(FloatOf(RemoveChar(TaxMatchAt(s, p)[1], ",")))

\* C8 (as claimed): with a "Product" .. "Total" block in the text, a
\* "Tax <amount>" that occurs only outside the block is not returned.
C8_TaxOnlyFromBlock ==
    (/\ tpc = "done"
     /\ ProductTotalBlock(ttext) # <<>>
     /\ ~\E p \in 1..Len(BlockText(ttext)) : TaxAt(BlockText(ttext), p)) => tres = None

\* C8 (amended): the first "Tax <amount>" of the block text (from the first
\* "Product" up to the next "Total") is returned when there is one, even if
\* another precedes the block; when the block is absent or holds none, the
\* first "Tax <amount>" of the whole text is returned, and None when neither
\* the block nor the text holds one.
C8_TaxBlockPreferred ==
    tpc = "done" =>
        LET blk == BlockText(ttext)
            inBlock == {p \in 1..Len(blk) : TaxAt(blk, p)}
            anywhere == {p \in 1..Len(ttext) : TaxAt(ttext, p)}
        IN  /\ inBlock # {} =>
                  \E p \in inBlock : (\A q \in inBlock : p <= q) /\ tres = TaxValueAt(blk, p)
            /\ (inBlock = {} /\ anywhere # {}) =>
                  \E p \in anywhere : (\A q \in anywhere : p <= q) /\ tres = TaxValueAt(ttext, p)
            /\ (inBlock = {} /\ anywhere = {}) => tres = None

\* "Tax 1.50 Product Tax 4.98 Total": the amount inside the block wins
C8_Witness ==
    /\ tpc = "done"
    /\ ttext = join(<<S_Tax \o <<" ">> \o S_1_50, S_Product, S_Tax \o <<" ">> \o S_4_98, S_Total>>)
    /\ tres = Float(498000)

----------------------------------------------------------------------------
(* build_rows_cadre on one document, statement by statement *)

MaxItems == 3

S_ABC == <<"A", "B", "C">>
S_XYZ == <<"X", "Y", "Z">>
S_FILE == <<"q", ".", "p", "d", "f">>

MkItem(ln, id, tot, desc) ==
    [line_no |-> ln, item_id |-> id, qty |-> S_2,
     unit_price |-> <<"$">> \o S_10_00, total |-> tot, description |-> desc]

\* the items a strategy may report; several share a key and differ elsewhere
ItemUniverse ==
    {MkItem(S_1, S_ABC, S_10_00, <<>>), MkItem(S_1, S_ABC, S_10_00, S_Widget),
     MkItem(S_2, S_ABC, S_10_00, <<>>), MkItem(S_1, S_ABC, <<>>, <<>>),
     MkItem(S_1, S_XYZ, S_10_00, <<>>)}

RawItemLists == SeqsUpTo(ItemUniverse, MaxItems)

S_1234_56 == <<"1", ",", "2", "3", "4", ".", "5", "6">>
CadreTexts ==
    {<<>>,
     S_Tax \o <<" ">> \o S_0_00,
     S_Tax \o <<" ">> \o S_4_98,
     join(<<S_Product, S_Tax, S_1234_56, S_Total>>)}

S_000123 == <<"0", "0", "0", "1", "2", "3">>
S_9_1_2025 == <<"9", "/", "1", "/", "2", "0", "2", "5">>
S_12_31_2025 == <<"1", "2", "/", "3", "1", "/", "2", "0", "2", "5">>
S_ACME == <<"A", "C", "M", "E">>
S_USA == <<"U", "S", "A">>

\* results of extract_header_info_cadre: nothing, a partial and a full header
CadreHeaders ==
    {[x \in {} |-> <<>>],
     [QuoteNumber |-> S_000123, QuoteDate |-> S_9_1_2025],
     [QuoteNumber |-> S_000123, QuoteDate |-> S_9_1_2025, CustomerNumber |-> S_1,
      FirstName |-> S_ABC, LastName |-> S_XYZ, ReferralManager |-> S_Widget,
      Company |-> S_ACME, Address |-> S_1, City |-> S_XYZ, State |-> S_EA,
      ZipCode |-> S_000123, Country |-> S_USA, QuoteValidDate |-> S_12_31_2025]}

InitCadre ==
    /\ cpc = "start"
    /\ full_text = <<>> /\ header = [x \in {} |-> <<>>]
    /\ raw_items = <<>> /\ out = <<>> /\ items = <<>>
    /\ calls = <<>> /\ tax_val = None /\ rows = <<>>
    /\ ScanIdle /\ BatchIdle /\ VoelkrIdle /\ RowIdle /\ TaxIdle /\ DateIdle

otherThanCadre == <<scanVars, batchVars, voelkrVars, rowVars, taxVars, dateVars>>

\* full_text = extract_full_text(pdf_bytes)
ReadText ==
    /\ cpc = "start"
    /\ full_text' \in CadreTexts
    /\ cpc' = "header"
    /\ UNCHANGED <<header, raw_items, out, items, calls, tax_val, rows>>
    /\ UNCHANGED otherThanCadre

\* header = extract_header_info_cadre(full_text)
ExtractHeader ==
    /\ cpc = "header"
    /\ header' \in CadreHeaders
    /\ cpc' = "tables"
    /\ UNCHANGED <<full_text, raw_items, out, items, calls, tax_val, rows>>
    /\ UNCHANGED otherThanCadre

\* items = extract_line_items_by_tables(pdf_bytes)
RunTables ==
    /\ cpc = "tables"
    /\ \E found \in RawItemLists :
          /\ raw_items' = found
          /\ calls' = Append(calls, [fn |-> "tables", ret |-> found])
    /\ cpc' = "fallback"
    /\ UNCHANGED <<full_text, header, out, items, tax_val, rows>>
    /\ UNCHANGED otherThanCadre

\* if not items: items = extract_line_items_by_words(pdf_bytes)
RunWords ==
    /\ cpc = "fallback"
    /\ NeedsFallback(raw_items)
    /\ \E found \in RawItemLists :
          /\ raw_items' = found
          /\ calls' = Append(calls, [fn |-> "words", ret |-> found])
    /\ cpc' = "dedup"
    /\ UNCHANGED <<full_text, header, out, items, tax_val, rows>>
    /\ UNCHANGED otherThanCadre

KeepTables ==
    /\ cpc = "fallback"
    /\ ~NeedsFallback(raw_items)
    /\ cpc' = "dedup"
    /\ UNCHANGED <<full_text, header, raw_items, out, items, calls, tax_val, rows>>
    /\ UNCHANGED otherThanCadre

\* the de-duplication loop and the return into build_rows_cadre
DedupItems ==
    /\ cpc = "dedup"
    /\ out' = Dedup(raw_items, {})
    /\ items' = out'
    /\ cpc' = "tax"
    /\ UNCHANGED <<full_text, header, raw_items, calls, tax_val, rows>>
    /\ UNCHANGED otherThanCadre

\* tax_val = extract_tax_amount(full_text) and the tax rule
TaxRule ==
    /\ cpc = "tax"
    /\ tax_val' = extract_tax_amount(full_text)
    /\ items' = AppendTax(items, tax_val')
    /\ cpc' = "rows"
    /\ UNCHANGED <<full_text, header, raw_items, out, calls, rows>>
    /\ UNCHANGED otherThanCadre

BuildRows ==
    /\ cpc = "rows"
    /\ rows' = CadreRows(header, items, S_FILE)
    /\ cpc' = "done"
    /\ UNCHANGED <<full_text, header, raw_items, out, items, calls, tax_val>>
    /\ UNCHANGED otherThanCadre

NextCadre ==
    \/ ReadText \/ ExtractHeader \/ RunTables \/ RunWords \/ KeepTables
    \/ DedupItems \/ TaxRule \/ BuildRows

SpecCadre == InitCadre /\ [][NextCadre]_vars

Deduped == cpc \in {"tax", "rows", "done"}

\* offset of the first entry of its with the key k
FirstWithKey(its, k) ==
    CHOOSE j \in 1..Len(its) :
        ItemKey(its[j]) = k /\ \A i \in 1..(j - 1) : ItemKey(its[i]) # k

\* C1: the list returned by extract_line_items_hybrid has no two entries with
\* the same key (line_no, item_id, total); the entry kept for a key is its
\* first occurrence in the raw list; the kept entries are in raw order; two
\* identical rows ("1", "ABC", "10.00") yield one entry.
C1_DedupFirstWins ==
    Deduped =>
        /\ \A i, j \in 1..Len(out) : ItemKey(out[i]) = ItemKey(out[j]) => i = j
        /\ \A j \in 1..Len(raw_items) : \E i \in 1..Len(out) : ItemKey(out[i]) = ItemKey(raw_items[j])
        /\ \A i \in 1..Len(out) :
              /\ \E j \in 1..Len(raw_items) : ItemKey(raw_items[j]) = ItemKey(out[i])
              /\ out[i] = raw_items[FirstWithKey(raw_items, ItemKey(out[i]))]
        /\ \A i, j \in 1..Len(out) :
              i < j => FirstWithKey(raw_items, ItemKey(out[i]))
                          < FirstWithKey(raw_items, ItemKey(out[j]))
        /\ raw_items = <<MkItem(S_1, S_ABC, S_10_00, <<>>), MkItem(S_1, S_ABC, S_10_00, <<>>)>>
              => out = <<MkItem(S_1, S_ABC, S_10_00, <<>>)>>

\* a key met three times, the first time with a description
C1_Witness ==
    /\ cpc = "tax"
    /\ raw_items = <<MkItem(S_1, S_ABC, S_10_00, S_Widget), MkItem(S_2, S_ABC, S_10_00, <<>>),
                     MkItem(S_1, S_ABC, S_10_00, <<>>)>>
    /\ out = <<MkItem(S_1, S_ABC, S_10_00, S_Widget), MkItem(S_2, S_ABC, S_10_00, <<>>)>>

TaxDone == cpc \in {"rows", "done"}

\* C2: without a parsed tax amount, or with one below 0.005 ("0.00"), the
\* item list gets no synthetic tax item; otherwise ("4.98") exactly one is
\* appended after all real items, with item id "Tax", empty description,
\* quantity "1", and unit price and total both equal to the parsed amount.
C2_TaxRowPolicy ==
    TaxDone =>
        /\ (tax_val = None \/ Abs(tax_val.f) < 500) => items = out
        /\ (tax_val # None /\ Abs(tax_val.f) >= 500) =>
              /\ Len(items) = Len(out) + 1
              /\ Slice(items, 1, Len(out)) = out
              /\ LET t == items[Len(items)]
                 IN  /\ t.item_id = S_Tax
                     /\ t.description = <<>>
                     /\ t.qty = <<"1">>
                     /\ t.unit_price = t.total
                     /\ safe_float(t.unit_price) = tax_val
        /\ Cardinality({i \in 1..Len(items) : items[i].item_id = S_Tax}) <= 1
        /\ full_text = S_Tax \o <<" ">> \o S_0_00 => items = out
        /\ full_text = S_Tax \o <<" ">> \o S_4_98 =>
              /\ Len(items) = Len(out) + 1
              /\ items[Len(items)].unit_price = S_4_98
              /\ items[Len(items)].total = S_4_98

C2_Witness ==
    /\ cpc = "rows"
    /\ full_text = join(<<S_Product, S_Tax, S_1234_56, S_Total>>)
    /\ Len(out) = 2
    /\ Len(items) = 3
    /\ items[3].item_id = S_Tax
    /\ items[3].total = S_1234_56

\* C7: the table strategy runs first; the word-flow strategy runs if and only
\* if the table strategy returned no item; when the table strategy returns
\* an item the result is made of table-strategy items only.
C7_StrategyPriority ==
    /\ calls # <<>> => calls[1].fn = "tables"
    /\ Len(calls) <= 2
    /\ Len(calls) = 2 => calls[2].fn = "words" /\ calls[1].ret = <<>>
    /\ cpc \in {"dedup", "tax", "rows", "done"} =>
          /\ calls # <<>>
          /\ Len(calls) = 2 <=> calls[1].ret = <<>>
          /\ calls[1].ret # <<>> => raw_items = calls[1].ret
    /\ (Deduped /\ calls[1].ret # <<>>) =>
          /\ out # <<>>
          /\ Range(out) \subseteq Range(calls[1].ret)
    /\ (Deduped /\ calls[1].ret = <<>>) => Range(out) \subseteq Range(calls[2].ret)

\* the fallback ran and produced the result
C7_Witness ==
    /\ cpc = "tax"
    /\ Len(calls) = 2
    /\ calls[1].ret = <<>>
    /\ calls[2].ret # <<>>
    /\ out # <<>>

HeaderColumns ==
    {"ReferralManager", "ReferralEmail", "Brand", "QuoteNumber", "QuoteDate",
     "Company", "FirstName", "LastName", "ContactEmail", "ContactPhone",
     "Address", "County", "City", "State", "ZipCode", "Country",
     "QuoteValidDate", "CustomerNumber", "manufacturer_Name", "PDF", "DemoQuote"}

\* C9: build_rows_cadre returns one record per line item (the de-duplicated
\* items, then the tax item when there is one), in item order; record i
\* carries item i's id, description, unit price and total; all records of the
\* document carry the same header columns.
C9_OneRowPerItem ==
    cpc = "done" =>
        /\ Len(rows) = Len(items)
        /\ Len(rows) = Len(out) + (IF tax_val # None /\ Abs(tax_val.f) >= 500 THEN 1 ELSE 0)
        /\ \A i \in 1..Len(rows) :
              /\ rows[i].item_id = Str(items[i].item_id)
              /\ rows[i].item_desc = Str(items[i].description)
              /\ rows[i].UnitPrice = safe_float(items[i].unit_price)
              /\ rows[i].TotalSales = safe_float(items[i].total)
              /\ i <= Len(out) => rows[i].item_id = Str(out[i].item_id)
        /\ \A i, j \in 1..Len(rows) : \A c \in HeaderColumns : rows[i][c] = rows[j][c]
        /\ \A i \in 1..Len(rows) :
              /\ rows[i].PDF = Str(S_FILE)
              /\ rows[i].QuoteNumber = HGet(header, "QuoteNumber")
              /\ rows[i].Company = HGet(header, "Company")

C9_Witness ==
    /\ cpc = "done"
    /\ Len(rows) = 3
    /\ rows[1].item_id = Str(S_ABC)
    /\ rows[2].item_id = Str(S_XYZ)
    /\ rows[3].item_id = Str(S_Tax)
    /\ rows[3].UnitPrice = Float(498000)
    /\ rows[1].QuoteDate = Str(<<"0", "9", "/", "0", "1", "/", "2", "0", "2", "5">>)

----------------------------------------------------------------------------
(* build_rows_voelkr on one document under a configured VOELKR_REGEX_MAP *)

S_A_1 == <<"A", "-", "1">>
S_DocNo == <<"I", "n", "v", "o", "i", "c", "e", " ", "N", "o", ":", " ">> \o S_A_1
S_DocDate == <<"D", "a", "t", "e", ":", " ">> \o S_9_5_24
S_TotalLine == S_Total \o <<" ", "$">> \o S_10_00
S_CustLine == <<"C", "u", "s", "t", "o", "m", "e", "r", ":", " ">>
S_CustName == S_ACME \o <<" ", "\t", " ">> \o S_XYZ \o <<" ">>

\* the fields whose pattern and whose match vary
VariedFields == {"DocumentNumber", "DocumentDate", "Total"}

VoelkrSample ==
    [f \in Range(VOELKR_FIELDS) \ {"PDF"} |->
        CASE f = "DocumentNumber" -> <<S_DocNo, S_A_1>>
          [] f = "DocumentDate" -> <<S_DocDate, S_9_5_24>>
          [] f = "Total" -> <<S_TotalLine, S_10_00>>
          [] f = "CustomerName" -> <<S_CustLine \o S_CustName, S_CustName>>
          [] OTHER -> <<>>]

VoelkrTexts ==
    {[f \in Range(VOELKR_FIELDS) \ {"PDF"} |-> IF f \in missing THEN <<>> ELSE VoelkrSample[f]] :
        missing \in SUBSET VariedFields}

\* VOELKR_REGEX_MAP with the patterns of the varied fields replaced or removed
ConfiguredMaps ==
    UNION {{[f \in DOMAIN VOELKR_REGEX_MAP \ absent |->
                IF f \in VariedFields THEN k[f] ELSE VOELKR_REGEX_MAP[f]] :
             k \in [VariedFields \ absent -> PatternKinds]} :
           absent \in SUBSET VariedFields}

InitVoelkr ==
    /\ vpc = "start"
    /\ regex_map \in ConfiguredMaps
    /\ vtext \in VoelkrTexts
    /\ vrows = <<>>
    /\ ScanIdle /\ BatchIdle /\ CadreIdle /\ RowIdle /\ TaxIdle /\ DateIdle

otherThanVoelkr == <<scanVars, batchVars, cadreVars, rowVars, taxVars, dateVars>>

\* build_rows_voelkr returns [row]
BuildVoelkr ==
    /\ vpc = "start"
    /\ ~build_rows_voelkr(vtext, regex_map, S_FILE).raised
    /\ vrows' = build_rows_voelkr(vtext, regex_map, S_FILE).rows
    /\ vpc' = "done"
    /\ UNCHANGED <<regex_map, vtext>>
    /\ UNCHANGED otherThanVoelkr

\* an exception other than re.error leaves build_rows_voelkr
VoelkrRaises ==
    /\ vpc = "start"
    /\ build_rows_voelkr(vtext, regex_map, S_FILE).raised
    /\ vpc' = "raised"
    /\ UNCHANGED <<regex_map, vtext, vrows>>
    /\ UNCHANGED otherThanVoelkr

NextVoelkr == BuildVoelkr \/ VoelkrRaises

SpecVoelkr == InitVoelkr /\ [][NextVoelkr]_vars

\* the pattern of field f raises a regex error or is empty
BadPattern(map, f) == f \in DOMAIN map /\ map[f] \in {"invalid", "empty"}

\* the map without an entry for f
WithoutField(map, f) == [g \in DOMAIN map \ {f} |-> map[g]]

\* C5: when the pattern of a field raises a regex error or is empty, the
\* field is blank in the record, no exception escapes, exactly one record is
\* returned, and every other field has the value it has when the bad field
\* has no pattern at all.
C5_BadPatternSkipped ==
    /\ vpc = "done" =>
          /\ Len(vrows) = 1
          /\ DOMAIN vrows[1] = Range(VOELKR_FIELDS)
          /\ \A f \in DOMAIN regex_map :
                BadPattern(regex_map, f) =>
                    /\ vrows[1][f] = Str(<<>>)
                    /\ ~build_rows_voelkr(vtext, WithoutField(regex_map, f), S_FILE).raised
                    /\ \A g \in Range(VOELKR_FIELDS) \ {f} :
                          vrows[1][g] =
                              build_rows_voelkr(vtext, WithoutField(regex_map, f), S_FILE).rows[1][g]
    /\ vpc = "raised" => \E f \in DOMAIN regex_map : regex_map[f] = "overflow"

\* an invalid pattern for the first searched field, the later fields found
C5_Witness ==
    /\ vpc = "done"
    /\ PatternOf(regex_map, "DocumentNumber") = "invalid"
    /\ PatternOf(regex_map, "DocumentDate") = "nogroup"
    /\ vtext["DocumentNumber"] # <<>>
    /\ vrows[1]["DocumentNumber"] = Str(<<>>)
    /\ vrows[1]["DocumentDate"] = Str(S_09_05_2024)
    /\ vrows[1]["CustomerName"] = Str(S_ACME \o <<" ">> \o S_XYZ)
    /\ vrows[1]["Total"] = Str(S_10_00)

----------------------------------------------------------------------------
(* The batch: "if extract_btn" and the loop over the uploaded files *)

MaxFiles == 3

NoMatches == [f \in Range(VOELKR_FIELDS) \ {"PDF"} |-> <<>>]
NoHeader == [x \in {} |-> <<>>]
FullHeader ==
    [QuoteNumber |-> S_000123, QuoteDate |-> S_9_1_2025, Company |-> S_ACME,
     QuoteValidDate |-> S_12_31_2025]

\* the uploads: an unreadable file, a document with nothing to extract, a
\* quote with a table and a tax line, a quote read by the word-flow strategy
Documents ==
    {[name |-> <<"b">>, readable |-> FALSE, text |-> <<>>, header |-> NoHeader,
      table_items |-> <<>>, word_items |-> <<>>, vmatch |-> NoMatches],
     [name |-> <<"e">>, readable |-> TRUE, text |-> <<>>, header |-> NoHeader,
      table_items |-> <<>>, word_items |-> <<>>, vmatch |-> NoMatches],
     [name |-> <<"t">>, readable |-> TRUE, text |-> S_Tax \o <<" ">> \o S_4_98,
      header |-> FullHeader,
      table_items |-> <<MkItem(S_1, S_ABC, S_10_00, <<>>), MkItem(S_1, S_ABC, S_10_00, <<>>)>>,
      word_items |-> <<MkItem(S_2, S_XYZ, S_10_00, <<>>)>>, vmatch |-> VoelkrSample],
     [name |-> <<"w">>, readable |-> TRUE, text |-> S_Tax \o <<" ">> \o S_0_00,
      header |-> NoHeader, table_items |-> <<>>,
      word_items |-> <<MkItem(S_2, S_XYZ, S_10_00, S_Widget)>>, vmatch |-> NoMatches]}

Init ==
    /\ bpc = "idle"
    /\ system_type = SYSTEM_TYPES[1]
    /\ file_data = <<>> /\ idx = 0
    /\ all_rows = <<>> /\ warnings_all = <<>> /\ result = None
    /\ ScanIdle /\ CadreIdle /\ VoelkrIdle /\ RowIdle /\ TaxIdle /\ DateIdle

otherThanBatch == <<scanVars, cadreVars, voelkrVars, rowVars, taxVars, dateVars>>

\* Extract pressed without an upload: st.error("Please upload at least one PDF.")
ExtractNothing ==
    /\ bpc \in {"idle", "aborted"}
    /\ bpc' = "no_files"
    /\ UNCHANGED <<system_type, file_data, idx, all_rows, warnings_all, result>>
    /\ UNCHANGED otherThanBatch

\* Extract pressed: file_data is read, the accumulators start empty
Extract ==
    /\ bpc \in {"idle", "no_files", "aborted"}
    /\ \E st \in Range(SYSTEM_TYPES), files \in SeqsUpTo(Documents, MaxFiles) \ {<<>>} :
          /\ system_type' = st
          /\ file_data' = files
    /\ idx' = 0
    /\ all_rows' = <<>> /\ warnings_all' = <<>>
    /\ bpc' = "loop"
    /\ UNCHANGED result
    /\ UNCHANGED otherThanBatch

\* the accumulators after parse_pdf returned r for the file fd
Accumulate(fd, r) ==
    /\ all_rows' = all_rows \o r.rows
    /\ warnings_all' =
          warnings_all \o [i \in 1..Len(r.warnings) |-> <<fd.name, r.warnings[i]>>]

\* whether the pass of the loop over the file fd ends in an exception
Raises(fd) == parse_pdf(system_type, fd, fd.name).raised

\* one pass of "for idx, fd in enumerate(file_data, start=1)"
ProcessFile ==
    /\ bpc = "loop" /\ idx < Len(file_data)
    /\ ~Raises(file_data[idx + 1])
    /\ Accumulate(file_data[idx + 1],
                  parse_pdf(system_type, file_data[idx + 1], file_data[idx + 1].name))
    /\ idx' = idx + 1
    /\ UNCHANGED <<system_type, file_data, result, bpc>>
    /\ UNCHANGED otherThanBatch

\* parse_pdf raises: nothing in the loop or around it catches the exception,
\* the run of the script ends without a result
ProcessFileRaises ==
    /\ bpc = "loop" /\ idx < Len(file_data)
    /\ Raises(file_data[idx + 1])
    /\ bpc' = "aborted"
    /\ UNCHANGED <<system_type, file_data, idx, all_rows, warnings_all, result>>
    /\ UNCHANGED otherThanBatch

\* after the loop: the data frame over the columns of the system, the ZIP,
\* the session state
FinishBatch ==
    /\ bpc = "loop" /\ idx = Len(file_data)
    /\ result' = [rows |-> DataFrame(all_rows, columns_for_system(system_type)),
                  warnings |-> warnings_all]
    /\ bpc' = "done"
    /\ UNCHANGED <<system_type, file_data, idx, all_rows, warnings_all>>
    /\ UNCHANGED otherThanBatch

\* "New extraction": the stored result is dropped
NewExtraction ==
    /\ bpc = "done"
    /\ result' = None
    /\ bpc' = "idle"
    /\ UNCHANGED <<system_type, file_data, idx, all_rows, warnings_all>>
    /\ UNCHANGED otherThanBatch

Next ==
    \/ ExtractNothing \/ Extract \/ ProcessFile \/ ProcessFileRaises
    \/ FinishBatch \/ NewExtraction

Spec == Init /\ [][Next]_vars

\* the rows a document contributes are those carrying its file name
RowsOf(rs, d) == {i \in 1..Len(rs) : rs[i].PDF = Str(d.name)}

\* C3 (as claimed): for either system type every processed document, even
\* one with no field and no line item, has an output record, and the key
\* set of every record is the column set of the system.
C3_RecordForEveryDocument ==
    bpc = "loop" =>
        /\ \A k \in 1..idx : RowsOf(all_rows, file_data[k]) # {}
        /\ \A i \in 1..Len(all_rows) :
              DOMAIN all_rows[i] = Range(columns_for_system(system_type))

\* the document has a line item or a tax amount of at least 0.005
HasLineItem(d) ==
    \/ d.table_items # <<>>
    \/ d.word_items # <<>>
    \/ \E p \in 1..Len(d.text) : TaxAt(d.text, p) /\ TaxValueAt(d.text, p).f >= 500

\* C3 (amended): the key set of every record is the column set of the
\* system, unresolved columns blank; Voelkr gives exactly one record per
\* document, even one with nothing to extract; Cadre gives a record per line
\* item, so none for a document without line item and tax amount.
C3_SchemaComplete ==
    bpc = "loop" =>
        /\ \A i \in 1..Len(all_rows) :
              DOMAIN all_rows[i] = Range(columns_for_system(system_type))
        /\ system_type = "Voelkr" =>
              /\ Len(all_rows) = idx
              /\ \A k \in 1..idx :
                    /\ all_rows[k].PDF = Str(file_data[k].name)
                    /\ file_data[k].vmatch = NoMatches =>
                          \A c \in Range(VOELKR_FIELDS) \ {"PDF"} : all_rows[k][c] = Str(<<>>)
        /\ system_type = "Cadre" =>
              \A k \in 1..idx :
                  /\ RowsOf(all_rows, file_data[k]) # {} <=> HasLineItem(file_data[k])
                  /\ file_data[k].header = NoHeader =>
                        \A i \in RowsOf(all_rows, file_data[k]) :
                            \A c \in {"QuoteNumber", "QuoteDate", "Company", "Address",
                                      "ReferralEmail", "County", "QuoteValidDate"} :
                                all_rows[i][c] = None

\* a Voelkr batch whose second document has nothing to extract
C3_Witness ==
    /\ bpc = "loop" /\ idx = 2
    /\ system_type = "Voelkr"
    /\ file_data[1].name = <<"t">> /\ file_data[2].name = <<"e">>
    /\ Len(all_rows) = 2
    /\ all_rows[2].PDF = Str(<<"e">>)
    /\ all_rows[2].Total = Str(<<>>)

\* C4: when the extraction of one document of the batch fails, the failure
\* is recorded as a warning of that document and every other document of the
\* batch, before and after it, is processed and has its rows in the output.
C4_BadFileDoesNotAbort ==
    /\ bpc # "aborted"
    /\ bpc = "done" =>
          \A k \in 1..Len(file_data) :
              IF file_data[k].readable
              THEN system_type = "Voelkr" => RowsOf(result.rows, file_data[k]) # {}
              ELSE \E i \in 1..Len(result.warnings) : result.warnings[i][1] = file_data[k].name

----------------------------------------------------------------------------
(* extract_line_items_by_words: the scan over the visual lines of a document *)

MaxLines == 6

L_Start == <<"1", " ", "A", "B", " ", "2">>
L_StartTotal == <<"2", " ", "C", "D", " ", "3", ".", "0", "0">>
L_Widget == <<"W", "i", "d", "g", "e", "t">>
L_TwoMoney == <<"4", ".", "0", "0", " ", "8", ".", "0", "0">>
L_Total == <<"T", "o", "t", "a", "l", " ", "9", ".", "0", "0">>

\* the visual lines a document is made of: an item line without prices, an
\* item line with its total, a description line, a line of prices, a stop line
LineUniverse == {L_Start, L_StartTotal, L_Widget, L_TwoMoney, L_Total}

\* the lists of n visual lines
VisualLineLists(n) == [1..n -> LineUniverse]

InitWords ==
    /\ wpc = "scan"
    /\ \E n \in 0..MaxLines : visual_lines \in VisualLineLists(n)
    /\ wi = 0 /\ current = None /\ word_desc_parts = <<>> /\ word_items = <<>>
    /\ cleaned = <<>> /\ cur_from = None /\ items_from = <<>>
    /\ TableIdle /\ BatchIdle /\ CadreIdle /\ VoelkrIdle /\ RowIdle /\ TaxIdle /\ DateIdle

otherThanWords == <<tableVars, batchVars, cadreVars, voelkrVars, rowVars, taxVars, dateVars>>

\* "line = visual_lines[i].strip()"
Line == Strip(visual_lines[wi + 1])

\* "if SUMMARY_STOP_LINE_RE.match(line): flush(); break"
StopLine ==
    /\ wpc = "scan" /\ wi < Len(visual_lines)
    /\ StopsScan(Line)
    /\ word_items' = flush(word_items, current, word_desc_parts)
    /\ items_from' = flush_from(items_from, cur_from)
    /\ current' = None /\ word_desc_parts' = <<>> /\ cur_from' = None
    /\ wpc' = "broke"
    /\ UNCHANGED <<visual_lines, wi, cleaned>>
    /\ UNCHANGED otherThanWords

\* "if ITEM_START_RE.match(line): flush(); ...; i += 1; continue"
ItemStart ==
    /\ wpc = "scan" /\ wi < Len(visual_lines)
    /\ ~StopsScan(Line) /\ ITEM_START_RE(Line)
    /\ word_items' = flush(word_items, current, word_desc_parts)
    /\ items_from' = flush_from(items_from, cur_from)
    /\ IF Len(split(Line)) >= 2
       THEN \E st \in {OpenItem(visual_lines, wi, split(Line))} :
               current' = st.cur /\ cur_from' = st.from
       ELSE current' = None /\ cur_from' = None
    /\ word_desc_parts' = <<>>
    /\ wi' = wi + 1
    /\ UNCHANGED <<visual_lines, cleaned, wpc>>
    /\ UNCHANGED otherThanWords

\* "if current: ...; i += 1" for a line that neither stops nor starts an item
OtherLine ==
    /\ wpc = "scan" /\ wi < Len(visual_lines)
    /\ ~StopsScan(Line) /\ ~ITEM_START_RE(Line)
    /\ IF current # None /\ AnyWordy(split(Line)) /\ Len(word_desc_parts) < DESC_CAP
       THEN /\ word_desc_parts' = Append(word_desc_parts, Line)
            /\ cur_from' = [cur_from EXCEPT !.desc = Append(@, wi + 1)]
       ELSE UNCHANGED <<word_desc_parts, cur_from>>
    /\ wi' = wi + 1
    /\ UNCHANGED <<visual_lines, current, word_items, cleaned, items_from, wpc>>
    /\ UNCHANGED otherThanWords

\* after the loop: the last flush() and the list cleaned
FinishWords ==
    /\ wpc = "broke" \/ (wpc = "scan" /\ wi >= Len(visual_lines))
    /\ word_items' = flush(word_items, current, word_desc_parts)
    /\ items_from' = flush_from(items_from, cur_from)
    /\ cleaned' = Cleaned(flush(word_items, current, word_desc_parts))
    /\ current' = None /\ word_desc_parts' = <<>> /\ cur_from' = None
    /\ wpc' = "done"
    /\ UNCHANGED <<visual_lines, wi>>
    /\ UNCHANGED otherThanWords

NextWords == StopLine \/ ItemStart \/ OtherLine \/ FinishWords

SpecWords == InitWords /\ [][NextWords]_vars

\* the line numbers (from 1) of the stop lines and of the item-start lines
IsStopLine(k) == SUMMARY_STOP_LINE_RE(Strip(visual_lines[k]))
IsStartLine(k) == ITEM_START_RE(Strip(visual_lines[k]))

\* the least element of a set of line numbers, dflt when it is empty
LeastOr(S, dflt) == IF S = {} THEN dflt ELSE Least(S)

\* the first stop line, Len + 1 when there is none
FirstStop ==
    LeastOr({k \in 1..Len(visual_lines) : IsStopLine(k)}, Len(visual_lines) + 1)

\* the item-start lines before line fs, in order
StartsBefore(fs) ==
    SelectSeq([k \in 1..Len(visual_lines) |-> k], LAMBDA k : k < fs /\ IsStartLine(k))

\* the first two tokens of each of the lines ks
HeadsOf(ks) == [n \in 1..Len(ks) |-> SubSeq(split(visual_lines[ks[n]]), 1, 2)]

\* the lines an item took anything from
OriginsOf(from) ==
    {from.open, from.total, from.unit_price} \cup Range(from.desc)

AllFrom == IF cur_from = None THEN items_from ELSE Append(items_from, cur_from)

\* C11: when the word-flow scan has ended, the emitted items are, one to one
\* and in order, the item-start lines before the first stop line (so the item
\* open at the stop line is kept), each with the line number and item code of
\* its line; and at no point has a line at or after the first stop line opened
\* an item or given a description or a price to one.
C11_ItemsAreStartsBeforeStop ==
    \A fs \in {FirstStop} :
        /\ \A n \in 1..Len(AllFrom) : \A k \in OriginsOf(AllFrom[n]) : k < fs
        /\ wpc = "done" =>
              /\ [n \in 1..Len(items_from) |-> items_from[n].open] = StartsBefore(fs)
              /\ [n \in 1..Len(cleaned) |-> <<cleaned[n].line_no, cleaned[n].item_id>>]
                    = HeadsOf(StartsBefore(fs))

\* a scan that ended at a stop line with an item open, with an item-start
\* line and prices after the stop line
C11_Witness ==
    /\ wpc = "done" /\ FirstStop >= 2 /\ FirstStop < Len(visual_lines)
    /\ IsStartLine(FirstStop - 1)
    /\ Len(cleaned) >= 1 /\ cleaned[Len(cleaned)].total = <<>>
    /\ \E k \in (FirstStop + 1)..Len(visual_lines) : IsStartLine(k)
    /\ visual_lines[FirstStop + 1] = L_TwoMoney

\* the items flushed so far and the open one, aligned with AllFrom
AllItems == IF current = None THEN word_items ELSE Append(word_items, current)

\* the money tokens of line k, and the item parsed from line k alone
MoneyOf(k) == SelectSeq(split(Strip(visual_lines[k])), MONEY_RE)
ParsedAt(k) == parse_item_row_tokens(split(Strip(visual_lines[k])))

\* the first item-start or stop line after line i, Len + 1 when there is none
NextBoundary(i) ==
    LeastOr({k \in (i + 1)..Len(visual_lines) : IsStartLine(k) \/ IsStopLine(k)},
            Len(visual_lines) + 1)

\* val is the value parsed from the opening line i when there is one;
\* otherwise it is missing or it is the pos-th money token from the end of
\* line src, one of the lines i+1..i+4 before the boundary nb
BackfillOk(val, parsed, src, i, nb, pos) ==
    IF parsed # None THEN val = parsed /\ src = 0
    ELSE IF src = 0 THEN val = None
    ELSE /\ src \in (i + 1)..(i + 4) /\ src < nb
         /\ Len(MoneyOf(src)) >= pos
         /\ val = Str(MoneyOf(src)[Len(MoneyOf(src)) - pos + 1])

\* at most 3 lines absorbed, each between the opening line and the boundary nb
DescOk(from, nb) ==
    /\ Len(from.desc) <= 3
    /\ \A n \in 1..Len(from.desc) : from.open < from.desc[n] /\ from.desc[n] < nb

\* the checks of an item against the item parsed from its opening line alone
ItemOkFor(it, from, nb, parsed) ==
    /\ BackfillOk(it.total, parsed.total, from.total, from.open, nb, 1)
    /\ BackfillOk(it.unit_price, parsed.unit_price, from.unit_price, from.open, nb, 2)
    /\ DescOk(from, nb)

ItemOk(it, from, nb) == ItemOkFor(it, from, nb, ParsedAt(from.open))

\* C13: for an item opened at line i, a missing total or unit price is
\* backfilled only from the money tokens of lines i+1..i+4 that lie before the
\* next item-start or stop line, a value parsed from the opening line is never
\* overwritten, and at most 3 following lines, all strictly between the
\* opening line and the next item-start or stop line, are absorbed into the
\* description (which is those lines joined).
C13_BoundedBackfillAndAbsorb ==
    /\ Len(AllItems) = Len(AllFrom)
    /\ \A n \in 1..Len(AllFrom) :
          ItemOk(AllItems[n], AllFrom[n], NextBoundary(AllFrom[n].open))
    /\ \A n \in 1..Len(word_items) :
          word_items[n].description =
              Str(Strip(join([m \in 1..Len(items_from[n].desc) |->
                                 Strip(visual_lines[items_from[n].desc[m]])])))

\* an item whose total was parsed from its opening line and whose unit price
\* was backfilled from the fourth line after it, with three lines absorbed
\* and a further descriptive line before the boundary left out
C13_Witness ==
    /\ wpc = "done"
    /\ \E n \in 1..Len(items_from) :
          /\ items_from[n].total = 0 /\ word_items[n].total # None
          /\ items_from[n].unit_price = items_from[n].open + 4
          /\ Len(items_from[n].desc) = 3
          /\ \E k \in (items_from[n].open + 1)..(NextBoundary(items_from[n].open) - 1) :
                /\ AnyWordy(split(visual_lines[k]))
                /\ \A m \in 1..3 : items_from[n].desc[m] # k

----------------------------------------------------------------------------
(* extract_line_items_by_tables: the loop over the rows of one table *)

MaxRows == 4

S_12345 == <<"1", "2", "3", "4", "5">>
S_A_dot == <<"A", ".">>

\* an item row without a description, one with a description, a row of
\* description only, an item row whose line number has five digits, an item
\* row whose item code ends in ".", a stop row, a row of numbers, an empty row
R_Item == <<S_1, S_SKU_100, S_2, S_10_00, S_20_00>>
R_ItemDesc == <<S_2, S_SKU_100, S_Widget, S_10_00>>
R_Desc == <<<<>>, S_Widget>>
R_LongNo == <<S_12345, S_SKU_100, S_Widget>>
R_DotCode == <<S_2, S_A_dot, S_Widget>>
R_Stop == <<S_Total, S_20_00>>
R_Numbers == <<<<>>, S_EA, S_2>>

RowUniverse == {R_Item, R_ItemDesc, R_Desc, R_LongNo, R_DotCode, R_Stop, R_Numbers, <<>>}

\* the tables of n rows
Tables(n) == [1..n -> RowUniverse]

InitTables ==
    /\ xpc = "scan"
    /\ \E n \in 0..MaxRows : str_rows \in Tables(n)
    /\ row_r = 0 /\ table_items = <<>> /\ merged = {} /\ emitted = {}
    /\ WordIdle /\ BatchIdle /\ CadreIdle /\ VoelkrIdle /\ RowIdle /\ TaxIdle /\ DateIdle

otherThanTables == <<wordVars, batchVars, cadreVars, voelkrVars, rowVars, taxVars, dateVars>>

\* "cells = str_rows[r]"
Cells == str_rows[row_r + 1]

\* a summary row: "r += 1; continue"
SummaryRow ==
    /\ xpc = "scan" /\ row_r < Len(str_rows)
    /\ IsSummaryRow(Cells)
    /\ row_r' = row_r + 1
    /\ UNCHANGED <<xpc, str_rows, table_items, merged, emitted>>
    /\ UNCHANGED otherThanTables

\* "if _row_has_item_signature(cells): ...; items.append(item)", "r += 1"
ItemRow ==
    /\ xpc = "scan" /\ row_r < Len(str_rows)
    /\ ~IsSummaryRow(Cells) /\ row_has_item_signature(Cells)
    /\ table_items' =
          Append(table_items, ItemOfRow(str_rows, row_r, parse_item_from_table_row(Cells)))
    /\ emitted' = emitted \cup {row_r + 1}
    /\ IF MergesNext(str_rows, row_r, parse_item_from_table_row(Cells))
       THEN merged' = merged \cup {row_r + 2} /\ row_r' = row_r + 2
       ELSE merged' = merged /\ row_r' = row_r + 1
    /\ UNCHANGED <<xpc, str_rows>>
    /\ UNCHANGED otherThanTables

\* any other row: "r += 1"
OtherRow ==
    /\ xpc = "scan" /\ row_r < Len(str_rows)
    /\ ~IsSummaryRow(Cells) /\ ~row_has_item_signature(Cells)
    /\ row_r' = row_r + 1
    /\ UNCHANGED <<xpc, str_rows, table_items, merged, emitted>>
    /\ UNCHANGED otherThanTables

\* "while r < len(str_rows)" ends
FinishTables ==
    /\ xpc = "scan" /\ row_r >= Len(str_rows)
    /\ xpc' = "done"
    /\ UNCHANGED <<str_rows, row_r, table_items, merged, emitted>>
    /\ UNCHANGED otherThanTables

NextTables == SummaryRow \/ ItemRow \/ OtherRow \/ FinishTables

SpecTables == InitTables /\ [][NextTables]_vars

\* C12: a row is merged into the preceding item as its description only if
\* that item's own description is empty and the row looks descriptive, is not
\* a stop row and does not start an item; so no row that has the item
\* signature is taken as another item's description instead of being emitted
\* as its own item, and a merged row is never processed again.
C12_SignatureRowNeverMerged ==
    /\ \A k \in merged :
          /\ k - 1 \in emitted /\ k \notin emitted /\ k <= row_r
          /\ parse_item_from_table_row(str_rows[k - 1]).description = <<>>
          /\ AnyWordy(split(NxtLine(str_rows[k])))
          /\ ~IsSummaryRow(str_rows[k])
    /\ \A k \in merged : row_has_item_signature(str_rows[k]) => k \in emitted

====
